---------------------------- MODULE Spec2Model ----------------------------
(***************************************************************************)
(* Model of the chatbot package: the route visibility predicate used by    *)
(* both components, the Tawk.to controller effect (TawkChatbot.jsx), its   *)
(* error containment (setupErrorHandling) and the local conversation       *)
(* engine (VeeyaaChatbot.jsx).                                             *)
(*                                                                         *)
(* Strings are sequences of characters (or of string fragments where only  *)
(* the containment structure of the text matters), so startsWith, includes *)
(* and trim are computed, not assumed.                                     *)
(***************************************************************************)
EXTENDS Integers, Sequences, FiniteSets, TLC

VARIABLES
    \* ---- route visibility predicate, evaluated on bounded inputs
    polPath,        \* location.pathname
    polRoutes,      \* hideOnRoutes
    polTawk,        \* shouldHide as computed by the TawkChatbot effect
    polVeeyaa,      \* shouldHide as computed by the VeeyaaChatbot render
    \* ---- the page the Tawk.to controller runs in
    path,           \* location.pathname
    win,            \* window: Tawk_API, Tawk_LoadStart, onerror and listeners
    script,         \* the injected <script>: "none", "loading", "loaded", "failed"
    loader,         \* what the closures of script.onload / script.onerror captured
    title,          \* document.title
    inst,           \* the TawkChatbot instances: mounted, props, titleCheckInterval
    timers,         \* pending setTimeout callbacks, in creation order
    obs,            \* what has been observed: calls made, counters
    hostOnerror,    \* whether the page had a window.onerror of its own
    lastDispatch,   \* the last synchronous error handed to window.onerror
    \* ---- the VeeyaaChatbot conversation engine
    vPath,          \* location.pathname
    eng,            \* the component: mounted, props and its useState values
    vTimers,        \* pending reply setTimeout callbacks, in creation order
    vSink,          \* the texts onMessage was called with since the mount
    sendCalls       \* flips at every call of handleSendMessage since the mount

polVars == <<polPath, polRoutes, polTawk, polVeeyaa>>
tawkVars == <<path, win, script, loader, title, inst, timers, obs>>
errVars == <<hostOnerror, lastDispatch>>
engVars == <<vPath, eng, vTimers, vSink, sendCalls>>

vars == <<polPath, polRoutes, polTawk, polVeeyaa,
          path, win, script, loader, title, inst, timers, obs,
          hostOnerror, lastDispatch,
          vPath, eng, vTimers, vSink, sendCalls>>

---------------------------------------------------------------------------
(* Bounds of the model.                                                    *)
MaxPathLen == 3
MaxPrefixLen == 1
MaxRoutes == 1
MaxTimers == 2          \* pending setTimeout callbacks of the controller
MaxMsgLen == 2          \* fragments of an error message
MaxUrlLen == 1          \* fragments of an error's source URL
MaxDraftLen == 2        \* characters typed into the draft
MaxSends == 2           \* messages sent during one mount
MaxReplyTimers == 2     \* pending reply setTimeout callbacks

---------------------------------------------------------------------------
(* Strings.                                                                *)

\* All sequences over S of length at most n.
SeqsUpTo(S, n) == UNION {[1..k -> S] : k \in 0..n}

\* String.prototype.includes(p): p occurs at some offset of s.
Includes(s, p) ==
    \E off \in 0..(Len(s) - Len(p)) :
        \A k \in 1..Len(p) : s[off + k] = p[k]

\* Mutation of StartsWith: the route is searched anywhere in the path.
StartsWithAnywhere(s, p) == Includes(s, p)

\* String.prototype.startsWith(p): p is no longer than s and every position
\* of p holds the same character as s (character codes compared, so the
\* comparison is case-sensitive).
StartsWith(s, p) ==
    /\ Len(p) <= Len(s)
    /\ \A k \in 1..Len(p) : s[k] = p[k]

\* const shouldHide = hideOnRoutes.some(route => location.pathname.startsWith(route))
\* in the TawkChatbot effect.
TawkShouldHide(pathname, hideOnRoutes) ==
    \E n \in 1..Len(hideOnRoutes) : StartsWith(pathname, hideOnRoutes[n])

\* The same expression in the VeeyaaChatbot render.
VeeyaaShouldHide(pathname, hideOnRoutes) ==
    \E n \in 1..Len(hideOnRoutes) : StartsWith(pathname, hideOnRoutes[n])


---------------------------------------------------------------------------
(* The Tawk.to controller: TawkChatbot.jsx.                                *)

LoadSettleDelay == 500      \* setTimeout(..., 500) in script.onload
RouteSettleDelay == 100     \* setTimeout(..., 100) when already loaded

\* The TawkChatbot instances of the page, in tree order.
Insts == {1, 2}

\* The entry points of window.Tawk_API the controller looks for.
Methods == {"hideWidget", "showWidget", "setAttributes", "onStatusChange"}

HomePath == <<"/">>
CustomerPath == <<"/", "c">>
TawkPaths == {HomePath, CustomerPath}

\* hideOnRoutes = ['/customer'] by default; the route is abbreviated "/c".
DefaultHideOnRoutes == << CustomerPath >>

\* The props a TawkChatbot is mounted with. callbacks: onLoad and onError
\* are supplied.
DefaultProps ==
    [hideOnRoutes |-> DefaultHideOnRoutes, enableErrorHandling |-> TRUE,
     enableTitleProtection |-> TRUE, callbacks |-> TRUE]

\* Both switches off and no callbacks.
BareProps ==
    [hideOnRoutes |-> DefaultHideOnRoutes, enableErrorHandling |-> FALSE,
     enableTitleProtection |-> FALSE, callbacks |-> FALSE]

TawkProps == {DefaultProps, BareProps}

NoInterval == [active |-> FALSE, originalTitle |-> << >>]
NoProps == [hideOnRoutes |-> << >>, enableErrorHandling |-> FALSE,
            enableTitleProtection |-> FALSE, callbacks |-> FALSE]
NoLoader == [inst |-> 0, shouldHide |-> FALSE, enableTitleProtection |-> FALSE,
             enableErrorHandling |-> FALSE, callbacks |-> FALSE]
NoPass == [origin |-> "none", hide |-> FALSE, called |-> {}, skipped |-> {}]

\* What has been observed of the page: the scripts appended to the head, the
\* assignments of Tawk_LoadStart, the callback calls, the last
\* hideWidget/showWidget call, whether the router has navigated, the calls of
\* the last reconciliation pass and whether the last title check assigned
\* document.title.
NoObs == [injected |-> 0, loadStartWrites |-> 0,
          onLoadCalls |-> 0, onErrorArgs |-> << >>,
          lastVisibility |-> "none", navigated |-> FALSE, lastPass |-> NoPass,
          titleWrote |-> FALSE]

\* Page titles, as sequences of fragments.
HomeTitle == <<"Home">>
CountTitle == <<"Home", " ", "(", "2", ")">>
NewMessageTitle == <<"1 ", "new message">>
DocsTitle == <<"Docs">>
Titles == {HomeTitle, CountTitle, NewMessageTitle, DocsTitle}
Digits == {"0", "1", "2"}

\* The state of the page as one record, so that the effects of several
\* instances compose.
Page == [path |-> path, win |-> win, script |-> script, loader |-> loader,
         title |-> title, inst |-> inst, timers |-> timers, obs |-> obs]

SetPage(s) ==
    /\ path' = s.path
    /\ win' = s.win
    /\ script' = s.script
    /\ loader' = s.loader
    /\ title' = s.title
    /\ inst' = s.inst
    /\ timers' = s.timers
    /\ obs' = s.obs
    /\ UNCHANGED <<polVars, errVars, engVars>>

\* setupErrorHandling(): window.onerror is wrapped, the two listeners are
\* added, and window.Tawk_API (created if undefined) is put behind a Proxy.
SetupErrorHandling(w) ==
    [w EXCEPT !.onerrorWraps = @ + 1,
              !.errorListeners = @ + 1,
              !.rejectionListeners = @ + 1,
              !.apiDefined = TRUE,
              !.proxyLayers = @ + 1]

\* Mutation of MustLoad: the guard looks at whether the script has finished
\* loading instead of whether a load was started.
MustLoadUntilLoaded(s) == s.script # "loaded"

\* if (!window.Tawk_API || !window.Tawk_LoadStart)
MustLoad(s) == ~s.win.apiDefined \/ ~s.win.loadStart

\* Mutation of LoadScript: setupErrorHandling is called whatever
\* enableErrorHandling is.
LoadScriptAlwaysContained(s, i, shouldHide) ==
    LET p == s.inst[i].props
        w1 == SetupErrorHandling(s.win)
        w2 == [w1 EXCEPT !.apiDefined = TRUE, !.loadStart = TRUE]
    IN  [s EXCEPT !.win = w2,
                  !.script = "loading",
                  !.loader = [inst |-> i, shouldHide |-> shouldHide,
                              enableTitleProtection |-> p.enableTitleProtection,
                              enableErrorHandling |-> p.enableErrorHandling,
                              callbacks |-> p.callbacks],
                  !.obs.injected = @ + 1,
                  !.obs.loadStartWrites = @ + 1]

\* The branch of the effect that loads the script. loader keeps the props
\* of this run: those the closures script.onload and script.onerror hold,
\* and enableErrorHandling as it was.
LoadScript(s, i, shouldHide) ==
    LET p == s.inst[i].props
        w1 == IF p.enableErrorHandling THEN SetupErrorHandling(s.win) ELSE s.win
        w2 == [w1 EXCEPT !.apiDefined = TRUE, !.loadStart = TRUE]
    IN  [s EXCEPT !.win = w2,
                  !.script = "loading",
                  !.loader = [inst |-> i, shouldHide |-> shouldHide,
                              enableTitleProtection |-> p.enableTitleProtection,
                              enableErrorHandling |-> p.enableErrorHandling,
                              callbacks |-> p.callbacks],
                  !.obs.injected = @ + 1,
                  !.obs.loadStartWrites = @ + 1]

\* A setTimeout callback that will call hideChatbot or showChatbot.
Timeout(i, shouldHide, etp, origin, delay) ==
    [inst |-> i, shouldHide |-> shouldHide, enableTitleProtection |-> etp,
     origin |-> origin, remaining |-> delay]

\* The body of the useEffect callback of instance i.
Effect(s, i) ==
    LET p == s.inst[i].props
        shouldHide == TawkShouldHide(s.path, p.hideOnRoutes)
        s1 == IF MustLoad(s)
              THEN LoadScript(s, i, shouldHide)
              ELSE [s EXCEPT !.timers =
                        Append(@, Timeout(i, shouldHide, p.enableTitleProtection,
                                          "route", RouteSettleDelay))]
        interval == IF p.enableTitleProtection /\ shouldHide
                    THEN [active |-> TRUE, originalTitle |-> s.title]
                    ELSE NoInterval
    IN  [s1 EXCEPT !.inst[i].interval = interval,
                   !.inst[i].intervals = IF interval.active THEN @ + 1 ELSE @]

\* Mutation of Cleanup: the effect returns no cleanup function.
NoCleanup(s, i) == s

\* The function the effect returns: clearInterval(titleCheckInterval), if
\* the run that returned it created an interval.
Cleanup(s, i) ==
    [s EXCEPT !.inst[i].interval = NoInterval,
              !.inst[i].intervals = IF s.inst[i].interval.active THEN @ - 1 ELSE @]

\* The effects of the mounted instances re-run, in tree order: each cleans
\* up, then runs again.
RECURSIVE RerunFrom(_, _)
RerunFrom(s, i) ==
    IF i \notin Insts THEN s
    ELSE IF s.inst[i].mounted
         THEN RerunFrom(Effect(Cleanup(s, i), i), i + 1)
         ELSE RerunFrom(s, i + 1)

MountedCount == Cardinality({i \in Insts : inst[i].mounted})

TawkIdle ==
    /\ path = HomePath
    /\ win = [apiDefined |-> FALSE, proxyLayers |-> 0, methods |-> {},
              statusOverridden |-> FALSE, loadStart |-> FALSE,
              onerrorWraps |-> 0, errorListeners |-> 0, rejectionListeners |-> 0]
    /\ script = "none"
    /\ loader = NoLoader
    /\ title = HomeTitle
    /\ inst = [i \in Insts |-> [mounted |-> FALSE, props |-> NoProps,
                                interval |-> NoInterval, intervals |-> 0]]
    /\ timers = << >>
    /\ obs = NoObs

\* No VeeyaaChatbot is mounted: there is no component state.
NoEngine == [mounted |-> FALSE, onMessage |-> FALSE, isOpen |-> FALSE,
             messages |-> << >>, inputValue |-> << >>, isTyping |-> FALSE]

EngIdle ==
    /\ vPath = HomePath
    /\ eng = NoEngine
    /\ vTimers = << >>
    /\ vSink = << >>
    /\ sendCalls = FALSE

ErrIdle ==
    /\ hostOnerror = FALSE
    /\ lastDispatch = [kind |-> "none"]

\* The page before any TawkChatbot is mounted. The page may have defined
\* window.Tawk_API (callbacks, visitor data) and window.onerror itself.
TawkInit ==
    /\ path \in TawkPaths
    /\ win \in {[apiDefined |-> d, proxyLayers |-> 0, methods |-> {},
                 statusOverridden |-> FALSE, loadStart |-> FALSE,
                 onerrorWraps |-> 0, errorListeners |-> 0,
                 rejectionListeners |-> 0] : d \in BOOLEAN}
    /\ script = "none"
    /\ loader = NoLoader
    /\ title = HomeTitle
    /\ inst = [i \in Insts |-> [mounted |-> FALSE, props |-> NoProps,
                                interval |-> NoInterval, intervals |-> 0]]
    /\ timers = << >>
    /\ obs = NoObs

\* A TawkChatbot is mounted with props p: its effect runs.
Mount(i, p) ==
    /\ ~inst[i].mounted
    /\ Len(timers) < MaxTimers
    /\ LET s == [Page EXCEPT !.inst[i] = [mounted |-> TRUE, props |-> p,
                                          interval |-> NoInterval,
                                          intervals |-> 0]]
       IN  SetPage(Effect(s, i))

\* The instance is unmounted: the cleanup of its last effect runs.
Unmount(i) ==
    /\ inst[i].mounted
    /\ LET s == Cleanup(Page, i)
       IN  SetPage([s EXCEPT !.inst[i].mounted = FALSE, !.inst[i].props = NoProps])

\* The router navigates: location.pathname is a dependency of every mounted
\* instance's effect.
RouteChange(p) ==
    /\ p # path
    /\ Len(timers) + MountedCount <= MaxTimers
    /\ SetPage(RerunFrom([Page EXCEPT !.path = p, !.obs.navigated = TRUE], 1))

\* A re-render with a new identity of a dependency (the default
\* hideOnRoutes is a fresh array in every render): the effect of instance
\* i re-runs on the same route.
Rerender(i) ==
    /\ inst[i].mounted
    /\ Len(timers) < MaxTimers
    /\ SetPage(Effect(Cleanup(Page, i), i))

\* The script element fires load: onLoad is called if supplied and the
\* first reconciliation is scheduled. The script has defined the entry
\* points m of window.Tawk_API by then.
ScriptLoad(m) ==
    /\ script = "loading"
    /\ script' = "loaded"
    /\ win' = [win EXCEPT !.methods = m]
    /\ timers' = Append(timers, Timeout(loader.inst, loader.shouldHide,
                                        loader.enableTitleProtection,
                                        "load", LoadSettleDelay))
    /\ obs' = [obs EXCEPT !.onLoadCalls = IF loader.callbacks THEN @ + 1 ELSE @]
    /\ UNCHANGED <<path, loader, title, inst, polVars, errVars, engVars>>

\* Mutation of OnErrorCalls: onError is called without the Error.
OnErrorCallsNoValue(args, supplied) ==
    IF supplied THEN Append(args, "undefined") ELSE args

\* if (onError) onError(new Error('Failed to load Tawk.to script')): the
\* arguments onError has been called with, after the call.
OnErrorCalls(args, supplied) ==
    IF supplied THEN Append(args, "Error: Failed to load Tawk.to script") ELSE args

\* The script element fires error: script.onerror runs.
ScriptError ==
    /\ script = "loading"
    /\ script' = "failed"
    /\ obs' = [obs EXCEPT !.onErrorArgs = OnErrorCalls(@, loader.callbacks)]
    /\ UNCHANGED <<path, win, loader, title, inst, timers, polVars, errVars, engVars>>

\* The loaded script finishes its own asynchronous initialisation: every
\* entry point is defined from now on.
WidgetReady ==
    /\ script = "loaded"
    /\ win.methods # Methods
    /\ win' = [win EXCEPT !.methods = Methods]
    /\ UNCHANGED <<path, script, loader, title, inst, timers, obs,
                   polVars, errVars, engVars>>

\* isTawkLoaded(): typeof window.Tawk_API !== 'undefined' && window.Tawk_API
IsTawkLoaded(s) == s.win.apiDefined

\* hideChatbot(): one try block around the three guarded calls. thr is the
\* set of entry points that throw when called in this pass.
HideChatbot(s, etp, origin, thr) ==
    IF ~IsTawkLoaded(s) THEN s
    ELSE
    LET m == s.win.methods
        callsHide == "hideWidget" \in m
        hideThrew == callsHide /\ "hideWidget" \in thr
        callsAttr == ~hideThrew /\ "setAttributes" \in m
        attrThrew == callsAttr /\ "setAttributes" \in thr
        overrides == ~hideThrew /\ ~attrThrew /\ etp /\ "onStatusChange" \in m
        wanted == {"hideWidget", "setAttributes"}
                  \cup (IF etp THEN {"onStatusChange"} ELSE {})
        called == (IF callsHide THEN {"hideWidget"} ELSE {})
                  \cup (IF callsAttr THEN {"setAttributes"} ELSE {})
                  \cup (IF overrides THEN {"onStatusChange"} ELSE {})
    IN  [s EXCEPT !.win.statusOverridden = @ \/ overrides,
                  !.obs.lastVisibility = IF callsHide THEN "hide" ELSE @,
                  !.obs.lastPass = [origin |-> origin, hide |-> TRUE,
                                    called |-> called,
                                    skipped |-> (m \cap wanted) \ called]]

\* showChatbot(): one try block around the two guarded calls.
ShowChatbot(s, origin, thr) ==
    IF ~IsTawkLoaded(s) THEN s
    ELSE
    LET m == s.win.methods
        callsShow == "showWidget" \in m
        showThrew == callsShow /\ "showWidget" \in thr
        callsAttr == ~showThrew /\ "setAttributes" \in m
        attrThrew == callsAttr /\ "setAttributes" \in thr
        wanted == {"showWidget", "setAttributes"}
        called == (IF callsShow THEN {"showWidget"} ELSE {})
                  \cup (IF callsAttr THEN {"setAttributes"} ELSE {})
    IN  [s EXCEPT !.obs.lastVisibility = IF callsShow THEN "show" ELSE @,
                  !.obs.lastPass = [origin |-> origin, hide |-> FALSE,
                                    called |-> called,
                                    skipped |-> (m \cap wanted) \ called]]

\* The callback of both setTimeout calls.
Reconcile(s, t, thr) ==
    IF t.shouldHide
    THEN HideChatbot(s, t.enableTitleProtection, t.origin, thr)
    ELSE ShowChatbot(s, t.origin, thr)

RemoveAt(q, k) == SubSeq(q, 1, k - 1) \o SubSeq(q, k + 1, Len(q))

Due(q) == {k \in DOMAIN q : q[k].remaining = 0}

\* The earliest created timeout that is due fires. thr: the entry points
\* that throw in this pass.
FireTimeout(thr) ==
    /\ Due(timers) # {}
    /\ thr \subseteq win.methods
    /\ LET k == CHOOSE d \in Due(timers) : \A e \in Due(timers) : d <= e
           s == [Page EXCEPT !.timers = RemoveAt(@, k)]
       IN  SetPage(Reconcile(s, timers[k], thr))

\* /\(\d+\)/ : an opening parenthesis, one or more digits, a closing one.
MatchesCount(t) ==
    \E a \in DOMAIN t : \E b \in DOMAIN t :
        /\ a + 1 < b
        /\ t[a] = "("
        /\ t[b] = ")"
        /\ \A k \in (a + 1)..(b - 1) : t[k] \in Digits

\* Mutation of TitleAfterCheck: only the count in parentheses is looked for.
TitleAfterCheckCountOnly(current, originalTitle) ==
    IF current # originalTitle /\ MatchesCount(current)
    THEN originalTitle
    ELSE current

\* The callback of setInterval: the title it leaves.
TitleAfterCheck(current, originalTitle) ==
    IF current # originalTitle
    THEN IF Includes(current, <<"new message">>) \/ MatchesCount(current)
         THEN originalTitle
         ELSE current
    ELSE current

\* Whether the callback assigns document.title.
TitleCheckWrites(current, originalTitle) ==
    /\ current # originalTitle
    /\ Includes(current, <<"new message">>) \/ MatchesCount(current)

\* The titleCheckInterval of instance i fires, 500 ms after it was created
\* or last fired. Its callback touches document.title only, so its
\* phase against the setTimeout callbacks is left open.
WatchdogTick(i) ==
    /\ inst[i].interval.active
    /\ title' = TitleAfterCheck(title, inst[i].interval.originalTitle)
    /\ obs' = [obs EXCEPT !.titleWrote =
                  TitleCheckWrites(title, inst[i].interval.originalTitle)]
    /\ UNCHANGED <<path, win, script, loader, inst, timers,
                   polVars, errVars, engVars>>

\* Time passes by the shortest delay of the program; a setTimeout callback
\* that is due runs before time passes again.
Tick ==
    /\ timers # << >>
    /\ Due(timers) = {}
    /\ timers' = [k \in DOMAIN timers |->
                    [timers[k] EXCEPT !.remaining = @ - RouteSettleDelay]]
    /\ UNCHANGED <<path, win, script, loader, title, inst, obs,
                   polVars, errVars, engVars>>

\* The widget script (or the page) assigns document.title.
TitleChange(t) ==
    /\ t # title
    /\ title' = t
    /\ UNCHANGED <<path, win, script, loader, inst, timers, obs,
                   polVars, errVars, engVars>>

\* The entry points the script may have defined when its load event fires.
EntryPointSets ==
    {{}, {"hideWidget", "showWidget", "setAttributes"}, Methods}

\* Several instances on one page; the script defines every entry point, at
\* its load event or later, and no entry point throws.
Next ==
    \/ \E i \in Insts : \E p \in TawkProps : Mount(i, p)
    \/ \E i \in Insts : Unmount(i)
    \/ \E p \in TawkPaths : RouteChange(p)
    \/ \E i \in Insts : Rerender(i)
    \/ \E m \in {{}, Methods} : ScriptLoad(m)
    \/ ScriptError
    \/ WidgetReady
    \/ FireTimeout({})
    \/ \E i \in Insts : WatchdogTick(i)
    \/ Tick

\* One instance; the entry points may be partly defined and may throw.
PassNext ==
    \/ \E p \in TawkProps : Mount(1, p)
    \/ Unmount(1)
    \/ \E p \in TawkPaths : RouteChange(p)
    \/ Rerender(1)
    \/ \E m \in EntryPointSets : ScriptLoad(m)
    \/ ScriptError
    \/ WidgetReady
    \/ \E thr \in SUBSET Methods : FireTimeout(thr)
    \/ WatchdogTick(1)
    \/ Tick

\* One instance; document.title is assigned by the widget script or the page.
TitleNext ==
    \/ \E p \in TawkProps : Mount(1, p)
    \/ Unmount(1)
    \/ \E p \in TawkPaths : RouteChange(p)
    \/ Rerender(1)
    \/ ScriptLoad(Methods)
    \/ ScriptError
    \/ FireTimeout({})
    \/ WatchdogTick(1)
    \/ Tick
    \/ \E t \in Titles : TitleChange(t)

PolIdle ==
    /\ polPath = << >>
    /\ polRoutes = << >>
    /\ polTawk = FALSE
    /\ polVeeyaa = FALSE

Init == TawkInit /\ ErrIdle /\ PolIdle /\ EngIdle

Spec == Init /\ [][Next]_vars

SpecPass == Init /\ [][PassNext]_vars

SpecTitle == Init /\ [][TitleNext]_vars

---------------------------------------------------------------------------
(* Claims about the controller.                                            *)

Hidden(i) == TawkShouldHide(path, inst[i].props.hideOnRoutes)

\* C2: after any sequence of mounts, effect re-runs, route changes and
\* unmounts, the script has been injected exactly once and Tawk_LoadStart
\* written exactly once; every mount after the first only schedules a
\* reconciliation and injects nothing.
C2_InjectedExactlyOnce ==
    [][ /\ (\E i \in Insts : inst'[i].mounted)
            => obs'.injected = 1 /\ obs'.loadStartWrites = 1
        /\ obs.injected = 1 => obs'.injected = 1 /\ obs'.loadStartWrites = 1
        /\ \A i \in Insts :
              (obs.injected = 1 /\ ~inst[i].mounted /\ inst'[i].mounted)
                  => /\ script' = script
                     /\ Len(timers') = Len(timers) + 1
                     /\ timers'[Len(timers')].origin = "route"
      ]_vars

\* Two instances are mounted, the router has navigated, and one script was
\* injected and has loaded.
C2_Witness ==
    /\ inst[1].mounted /\ inst[2].mounted
    /\ inst[1].props # inst[2].props
    /\ obs.navigated
    /\ script = "loaded"
    /\ obs.injected = 1

\* C3 (as claimed): once the script has loaded and every pending settle
\* timer has fired, the last hideWidget/showWidget call matches the hidden
\* value of the current route.
C3_LastCallMatchesRoute ==
    (/\ script = "loaded"
     /\ timers = << >>
     /\ obs.lastVisibility # "none")
        => \A i \in Insts :
              inst[i].mounted =>
                  obs.lastVisibility = (IF Hidden(i) THEN "hide" ELSE "show")

\* C7: if the script fails to load, onError (when supplied) has been called
\* exactly once, with an Error; the script is never injected again and the
\* state stays failed; and no entry point of the API is ever called.
C7_FailureIsTerminal ==
    [][ /\ script = "failed" => script' = "failed"
        /\ script' = "failed" =>
              /\ loader'.callbacks
                    => obs'.onErrorArgs = <<"Error: Failed to load Tawk.to script">>
              /\ ~loader'.callbacks => obs'.onErrorArgs = << >>
              /\ obs'.injected = 1
              /\ obs'.lastPass.called = {}
              /\ obs'.lastVisibility = "none"
      ]_vars

\* After the failure the router has navigated, a second instance is mounted
\* and a reconciliation pass has run.
C7_Witness ==
    /\ script = "failed"
    /\ obs.onErrorArgs # << >>
    /\ obs.navigated
    /\ inst[1].mounted /\ inst[2].mounted
    /\ obs.lastPass.origin = "route"
    /\ timers = << >>

\* The titles that have the shape of an unread notification.
UnreadTitles == {CountTitle, NewMessageTitle}

\* C6: on a hidden route with title protection enabled, a title that differs
\* from the baseline captured when the watchdog was activated and has the
\* unread shape is reset to the baseline by the next polling tick; a title
\* equal to the baseline never causes a write; and no watchdog exists, so no
\* tick writes the title, when protection is disabled or the route is shown.
C6_WatchdogReverts ==
    [][ /\ \A i \in Insts :
              WatchdogTick(i) =>
                  LET baseline == inst[i].interval.originalTitle
                  IN  /\ (title # baseline /\ title \in UnreadTitles)
                            => title' = baseline /\ obs'.titleWrote
                      /\ title = baseline
                            => title' = title /\ ~obs'.titleWrote
        /\ \A i \in Insts :
              inst'[i].interval.active =>
                  /\ inst'[i].mounted
                  /\ inst'[i].props.enableTitleProtection
                  /\ TawkShouldHide(path', inst'[i].props.hideOnRoutes)
        /\ (obs'.titleWrote /\ ~obs.titleWrote) =>
              \E i \in Insts :
                  /\ inst[i].interval.active
                  /\ inst[i].props.enableTitleProtection
                  /\ TawkShouldHide(path, inst[i].props.hideOnRoutes)
                  /\ title' = inst[i].interval.originalTitle
      ]_vars

\* The watchdog has just reverted a title to the baseline "Home" on the
\* hidden route.
C6_Witness ==
    /\ path = CustomerPath
    /\ inst[1].interval.active
    /\ inst[1].interval.originalTitle = HomeTitle
    /\ title = HomeTitle
    /\ obs.titleWrote

\* C8 (as claimed): the first mount is on a hidden route and the route does
\* not change: one script is injected and, in the pass that follows the load
\* by the settle delay, hideWidget and setAttributes are each called if
\* present; showWidget is never called.
C8_HiddenMountHides ==
    (loader.inst # 0 /\ loader.shouldHide /\ ~obs.navigated) =>
        /\ obs.injected = 1
        /\ obs.lastVisibility # "show"
        /\ obs.lastPass.origin = "load" =>
              /\ obs.lastPass.hide
              /\ obs.lastPass.skipped \cap {"hideWidget", "setAttributes"} = {}

\* C11 (as claimed): within one reconciliation pass the calls are isolated
\* from one another: every entry point of the pass that is present has been
\* attempted, whether or not an earlier call of the pass threw.
C11_CallsAreIsolated ==
    obs.lastPass.origin # "none" => obs.lastPass.skipped = {}

\* C12 (as claimed): unmounting an instance cancels every timer it created:
\* no settle timeout and no watchdog interval of an unmounted controller
\* instance is pending, and no reply timer of an unmounted engine is.
C12_UnmountCancelsTimers ==
    /\ \A i \in Insts :
          ~inst[i].mounted =>
              /\ ~inst[i].interval.active
              /\ \A k \in DOMAIN timers : timers[k].inst # i
    /\ \A k \in DOMAIN vTimers : vTimers[k].live

\* C14 (as claimed): a route change cancels the timers created for the
\* previous route: a watchdog interval is active only for the current route,
\* and the reconciliation callback that runs when a settle timeout fires
\* applies the hidden value of the current route, never that of a
\* superseded one.
C14_NoStaleReconciliation ==
    [][ /\ \A i \in Insts :
              inst'[i].interval.active =>
                  TawkShouldHide(path', inst'[i].props.hideOnRoutes)
        /\ Len(timers') < Len(timers) =>
              \A i \in Insts :
                  inst[i].mounted => obs'.lastPass.hide = Hidden(i)
      ]_vars

\* C15 (as claimed): while the script is loading no hideWidget/showWidget
\* call reaches the API, and the reconciliation that the load event schedules
\* carries the hidden value of the route that is current when the script has
\* loaded, not that of the route on which the load was started.
C15_LoadAppliesLatestRoute ==
    [][ /\ script' = "loading" => obs'.lastVisibility = "none"
        /\ (script = "loading" /\ script' = "loaded") =>
              \A i \in Insts :
                  inst[i].mounted =>
                      timers'[Len(timers')].shouldHide = Hidden(i)
      ]_vars

\* C17: at every moment each controller instance owns at most one watchdog
\* interval that has not been cleared, and it owns none while it is
\* unmounted, while its route is shown or while title protection is
\* disabled.
C17_OneWatchdog ==
    \A i \in Insts :
        /\ inst[i].intervals <= 1
        /\ inst[i].intervals > 0 =>
              /\ inst[i].mounted
              /\ inst[i].props.enableTitleProtection
              /\ Hidden(i)

\* The effect of instance 1 has run three times on the hidden route (the
\* mount and two re-runs, whose settle timeouts are pending) and one
\* interval is left; the other instance, without title protection, has none.
C17_Witness ==
    /\ inst[1].intervals = 1
    /\ inst[1].interval.active
    /\ Len(timers) = 2
    /\ \A k \in DOMAIN timers : timers[k].inst = 1 /\ timers[k].shouldHide
    /\ inst[2].mounted
    /\ inst[2].intervals = 0
    /\ loader.inst = 1

\* What C22 says of a state: before any load nothing is installed and no
\* callback was called; after the load was started, containment is installed
\* exactly if enableErrorHandling was true in the run that started it, and
\* onLoad and onError were called exactly if that run supplied them (onLoad
\* once the script has loaded, onError once it has failed).
SettingsOfWinner ==
    IF loader.inst = 0
    THEN /\ win.onerrorWraps = 0
         /\ obs.onLoadCalls = 0
         /\ obs.onErrorArgs = << >>
    ELSE LET installs == IF loader.enableErrorHandling THEN 1 ELSE 0
         IN  /\ win.onerrorWraps = installs
             /\ win.errorListeners = installs
             /\ win.rejectionListeners = installs
             /\ win.proxyLayers = installs
             /\ obs.onLoadCalls =
                   (IF loader.callbacks /\ script = "loaded" THEN 1 ELSE 0)
             /\ Len(obs.onErrorArgs) =
                   (IF loader.callbacks /\ script = "failed" THEN 1 ELSE 0)

\* C22: the load settings are fixed by the effect run that wins the load
\* guard: no later mount, re-run or route change replaces that run's
\* settings, installs containment or has its callbacks called.
C22_WinnerFixesSettings ==
    [][ /\ loader.inst # 0 => loader' = loader
        /\ SettingsOfWinner'
      ]_vars

\* The load was started by an instance without error handling and without
\* callbacks; an instance with both was mounted later and the script has
\* loaded: nothing is installed and onLoad was not called.
C22_Witness ==
    /\ loader.inst = 1
    /\ ~loader.enableErrorHandling
    /\ ~loader.callbacks
    /\ inst[2].mounted
    /\ inst[2].props = DefaultProps
    /\ script = "loaded"
    /\ win.onerrorWraps = 0
    /\ obs.onLoadCalls = 0

---------------------------------------------------------------------------
(* Error containment: the window.onerror installed by setupErrorHandling.  *)
(* A message or URL is a sequence of fragments; the markers the handler    *)
(* looks for are fragments, '$_Tawk' being '$_' followed by 'Tawk', so     *)
(* that a message that includes '$_Tawk' includes 'Tawk' as in the text.   *)

MsgFragments == {"Tawk", "$_", "i18next", "is not a function", "tawk", "x"}
UrlFragments == {"tawk", "Tawk", "x"}
Messages == SeqsUpTo(MsgFragments, MaxMsgLen)
Urls == SeqsUpTo(UrlFragments, MaxUrlLen)

\* Mutation of DenyListed: the generic 'is not a function' marker is missing.
DenyListedWithoutGeneric(msg) ==
    /\ msg # << >>
    /\ \/ Includes(msg, <<"Tawk">>)
       \/ Includes(msg, <<"i18next">>)
       \/ Includes(msg, <<"$_", "Tawk">>)

\* msg && (msg.includes('Tawk') || msg.includes('i18next') ||
\*         msg.includes('$_Tawk') || msg.includes('is not a function'))
\* An empty or missing message is falsy.
DenyListed(msg) ==
    /\ msg # << >>
    /\ \/ Includes(msg, <<"Tawk">>)
       \/ Includes(msg, <<"i18next">>)
       \/ Includes(msg, <<"$_", "Tawk">>)
       \/ Includes(msg, <<"is not a function">>)

\* url && url.includes('tawk')
FromProvider(url) == url # << >> /\ Includes(url, <<"tawk">>)

NotHandled == [result |-> FALSE, forwarded |-> << >>, warned |-> 0]

\* A call of window.onerror when setupErrorHandling has wrapped it `wraps`
\* times around the page's own handler (host: there is one, and it returns
\* hostReturn): the value returned, the arguments the page's handler was
\* called with, and the warnings logged.
RECURSIVE WindowOnerror(_, _, _, _, _)
WindowOnerror(wraps, host, msg, url, hostReturn) ==
    IF wraps = 0
    THEN IF host
         THEN [result |-> hostReturn,
               forwarded |-> << [msg |-> msg, url |-> url] >>,
               warned |-> 0]
         ELSE NotHandled
    ELSE IF DenyListed(msg) \/ FromProvider(url)
         THEN [result |-> TRUE, forwarded |-> << >>, warned |-> 1]
         ELSE IF wraps > 1 \/ host
              THEN WindowOnerror(wraps - 1, host, msg, url, hostReturn)
              ELSE NotHandled

\* The capturing 'error' listener: whether it calls preventDefault and
\* stopPropagation and logs a warning.
\* e.message && (e.message.includes('Tawk') || ... 'is not a function'))
\*   || (e.filename && e.filename.includes('tawk'))
ErrorListenerHandles(message, filename) ==
    \/ /\ message # << >>
       /\ \/ Includes(message, <<"Tawk">>)
          \/ Includes(message, <<"i18next">>)
          \/ Includes(message, <<"$_", "Tawk">>)
          \/ Includes(message, <<"is not a function">>)
    \/ filename # << >> /\ Includes(filename, <<"tawk">>)

\* The 'unhandledrejection' listener: whether it calls preventDefault.
\* e.reason && (e.reason.message && (…includes('Tawk') ||
\*   …includes('i18next') || …includes('$_Tawk'))
\*   || (e.reason.stack && e.reason.stack.includes('tawk')))
RejectionListenerHandles(message, stack) ==
    \/ /\ message # << >>
       /\ \/ Includes(message, <<"Tawk">>)
          \/ Includes(message, <<"i18next">>)
          \/ Includes(message, <<"$_", "Tawk">>)
    \/ stack # << >> /\ Includes(stack, <<"tawk">>)

\* An uncaught error is reported: the error event goes to window.onerror and
\* to every 'error' listener of the window (stopPropagation does not keep
\* the listeners of the same target from running).
\* The handlers keep no state, so an error changes nothing but the record of
\* the last error: the states reached after several errors are those reached
\* after the last of them alone, and one error per behaviour reaches them all.
DispatchError ==
    /\ lastDispatch.kind = "none"
    /\ \E msg \in Messages : \E url \in Urls :
          \E hostReturn \in (IF hostOnerror THEN BOOLEAN ELSE {FALSE}) :
              lastDispatch' =
                 [kind |-> "error", msg |-> msg, url |-> url,
                  hostReturn |-> hostReturn,
                  installed |-> win.onerrorWraps > 0,
                  outcome |-> WindowOnerror(win.onerrorWraps, hostOnerror,
                                            msg, url, hostReturn),
                  listenerWarned |-> IF ErrorListenerHandles(msg, url)
                                     THEN win.errorListeners ELSE 0]
    /\ UNCHANGED <<hostOnerror, tawkVars, polVars, engVars>>

\* A promise is rejected with an Error of message msg and stack trace stack
\* and nothing handles it: the unhandledrejection event goes to the
\* listeners of the window.
DispatchRejection ==
    /\ lastDispatch.kind = "none"
    /\ \E msg \in Messages : \E stack \in Urls :
          lastDispatch' =
             [kind |-> "rejection", msg |-> msg, url |-> stack,
              installed |-> win.rejectionListeners > 0,
              handled |-> /\ win.rejectionListeners > 0
                          /\ RejectionListenerHandles(msg, stack)]
    /\ UNCHANGED <<hostOnerror, tawkVars, polVars, engVars>>

ContainmentInit ==
    /\ TawkInit /\ PolIdle /\ EngIdle
    /\ hostOnerror \in BOOLEAN
    /\ lastDispatch = [kind |-> "none"]

\* The page mounts and unmounts controllers, and errors are thrown.
ContainmentNext ==
    \/ \E p \in TawkProps : Mount(1, p)
    \/ Unmount(1)
    \/ Rerender(1)
    \/ DispatchError
    \/ DispatchRejection

SpecContainment == ContainmentInit /\ [][ContainmentNext]_vars

\* The markers of the deny-list.
DenyList == {<<"Tawk">>, <<"i18next">>, <<"$_", "Tawk">>, <<"is not a function">>}

\* text contains marker: it is some text, the marker, some more text.
Contains(text, marker) ==
    \E i \in 0..Len(text) : \E j \in i..Len(text) :
        text = SubSeq(text, 1, i) \o marker \o SubSeq(text, j + 1, Len(text))

\* C4: with containment installed, an error whose message contains a marker
\* of the deny-list is reported handled without calling the page's handler;
\* an error with no marker, from a URL without the provider's host marker,
\* goes with unchanged arguments to the page's handler if there is one, whose
\* result is returned (false if there is none).
C4_ContainmentIsSelective ==
    (lastDispatch.kind = "error" /\ lastDispatch.installed) =>
        LET d == lastDispatch
            marked == \E mk \in DenyList : Contains(d.msg, mk)
            provider == Contains(d.url, <<"tawk">>)
        IN  /\ marked => d.outcome.result = TRUE /\ d.outcome.forwarded = << >>
            /\ (~marked /\ ~provider) =>
                  IF hostOnerror
                  THEN /\ d.outcome.forwarded = << [msg |-> d.msg, url |-> d.url] >>
                       /\ d.outcome.result = d.hostReturn
                  ELSE /\ d.outcome.forwarded = << >>
                       /\ d.outcome.result = FALSE

\* With containment installed over a handler of the page, an unrelated
\* error was forwarded to that handler, which reported it handled.
C4_Witness ==
    /\ lastDispatch.kind = "error"
    /\ lastDispatch.installed
    /\ hostOnerror
    /\ lastDispatch.msg = <<"x", "tawk">>
    /\ lastDispatch.url = <<"x">>
    /\ lastDispatch.hostReturn
    /\ lastDispatch.outcome.result
    /\ Len(lastDispatch.outcome.forwarded) = 1

\* C16 (as claimed): installation is idempotent: once containment is
\* installed, and whatever mounts and effect re-runs follow, window.onerror
\* is wrapped once, each listener is registered once, Tawk_API is behind one
\* Proxy, and one error with a marker of the deny-list in its message gives
\* one suppression with one warning.
C16_InstalledOnce ==
    /\ win.onerrorWraps > 0 =>
          /\ win.onerrorWraps = 1
          /\ win.errorListeners = 1
          /\ win.rejectionListeners = 1
          /\ win.proxyLayers = 1
    /\ (/\ lastDispatch.kind = "error"
        /\ lastDispatch.installed
        /\ \E mk \in DenyList : Contains(lastDispatch.msg, mk)) =>
          lastDispatch.outcome.warned + lastDispatch.listenerWarned = 1

\* C18 (as claimed): the unhandled-rejection listener applies the test of
\* the synchronous handlers: a rejection is marked handled exactly when a
\* synchronous error with the same message (and the same text as source
\* URL as the rejection has as stack) would be suppressed, the messages
\* that match only 'is not a function' included.
C18_RejectionsLikeErrors ==
    (lastDispatch.kind = "rejection" /\ lastDispatch.installed) =>
        (lastDispatch.handled <=>
            \/ \E mk \in DenyList : Contains(lastDispatch.msg, mk)
            \/ Contains(lastDispatch.url, <<"tawk">>))

---------------------------------------------------------------------------
(* The conversation engine: VeeyaaChatbot.                                 *)
(* A text is a sequence of characters; the welcome text and the reply text *)
(* are one character each of the alphabet, so that they can be typed.      *)

ReplyDelay == 1000

WelcomeText == "Hello! How can I help you today?"
ReplyText == "Thank you for your message! Our team will get back to you soon."

Drafts == SeqsUpTo({" ", "a"}, MaxDraftLen) \cup {<<WelcomeText>>}

RECURSIVE TrimStart(_)
TrimStart(s) ==
    IF s # << >> /\ Head(s) = " " THEN TrimStart(Tail(s)) ELSE s

RECURSIVE TrimEnd(_)
TrimEnd(s) ==
    IF s # << >> /\ s[Len(s)] = " " THEN TrimEnd(SubSeq(s, 1, Len(s) - 1)) ELSE s

\* Mutation of Trim: the draft is taken as typed.
Untrimmed(s) == s

\* String.prototype.trim()
Trim(s) == TrimEnd(TrimStart(s))

\* Mutation of SendRejected: the draft is not trimmed before the test.
SendRejectedUntrimmed(e) == e.inputValue = << >> \/ e.isTyping

\* if (!inputValue.trim() || isTyping) return;
SendRejected(e) == Trim(e.inputValue) = << >> \/ e.isTyping

\* Mutation of Welcome: the test of the effect is inverted.
WelcomeWhenNonEmpty(messages) ==
    IF Len(messages) # 0
    THEN << [id |-> 1, text |-> <<WelcomeText>>, sender |-> "bot"] >>
    ELSE messages

\* The effect with no dependencies, run after the first render of a mount.
Welcome(messages) ==
    IF Len(messages) = 0
    THEN << [id |-> 1, text |-> <<WelcomeText>>, sender |-> "bot"] >>
    ELSE messages

\* Mutation of CloseWhenHidden: the effect leaves the panel as it is.
LeftAsIs(e, pathname) == e

\* useEffect(() => { if (shouldHide && isOpen) setIsOpen(false) }, [shouldHide, isOpen])
CloseWhenHidden(e, pathname) ==
    IF VeeyaaShouldHide(pathname, DefaultHideOnRoutes) /\ e.isOpen
    THEN [e EXCEPT !.isOpen = FALSE]
    ELSE e

\* The panel with the draft input and the send button is on the page.
PanelRendered ==
    /\ eng.mounted
    /\ ~VeeyaaShouldHide(vPath, DefaultHideOnRoutes)
    /\ eng.isOpen

\* A VeeyaaChatbot is mounted: the useState initial values, then the effects.
VMount(onMessage) ==
    /\ ~eng.mounted
    /\ eng' = CloseWhenHidden(
                 [mounted |-> TRUE, onMessage |-> onMessage, isOpen |-> FALSE,
                  messages |-> Welcome(<< >>), inputValue |-> << >>,
                  isTyping |-> FALSE], vPath)
    /\ vSink' = << >>
    /\ sendCalls' = FALSE
    /\ UNCHANGED <<vPath, vTimers, polVars, tawkVars, errVars>>

\* The component is unmounted: its state is gone; the reply timers are not
\* cleared, and their setState calls are then without effect.
VUnmount ==
    /\ eng.mounted
    /\ eng' = NoEngine
    /\ vTimers' = [k \in 1..Len(vTimers) |-> [vTimers[k] EXCEPT !.live = FALSE]]
    /\ vSink' = << >>
    /\ sendCalls' = FALSE
    /\ UNCHANGED <<vPath, polVars, tawkVars, errVars>>

\* The parent renders again: the welcome effect has no dependencies and is
\* not run again.
VRerender ==
    /\ eng.mounted
    /\ eng' = CloseWhenHidden(eng, vPath)
    /\ UNCHANGED <<vPath, vTimers, vSink, sendCalls, polVars, tawkVars, errVars>>

\* location.pathname changes.
VRouteChange(p) ==
    /\ p # vPath
    /\ vPath' = p
    /\ eng' = IF eng.mounted THEN CloseWhenHidden(eng, p) ELSE eng
    /\ UNCHANGED <<vTimers, vSink, sendCalls, polVars, tawkVars, errVars>>

\* toggleChat, the onClick of the launcher button (not rendered when hidden).
ToggleChat ==
    /\ eng.mounted
    /\ ~VeeyaaShouldHide(vPath, DefaultHideOnRoutes)
    /\ eng' = [eng EXCEPT !.isOpen = ~eng.isOpen]
    /\ UNCHANGED <<vPath, vTimers, vSink, sendCalls, polVars, tawkVars, errVars>>

\* onChange of the draft input, which is disabled while isTyping.
SetInputValue(d) ==
    /\ PanelRendered
    /\ ~eng.isTyping
    /\ eng' = [eng EXCEPT !.inputValue = d]
    /\ UNCHANGED <<vPath, vTimers, vSink, sendCalls, polVars, tawkVars, errVars>>

\* Mutation of Sent: setIsTyping(true) is missing.
SentWithoutTyping(e, userMessage) ==
    [e EXCEPT !.messages = Append(@, userMessage),
              !.inputValue = << >>]

\* The component state after setMessages(prev => [...prev, userMessage]),
\* setInputValue('') and setIsTyping(true).
Sent(e, userMessage) ==
    [e EXCEPT !.messages = Append(@, userMessage),
              !.inputValue = << >>,
              !.isTyping = TRUE]

\* Mutation of BotMessageId: the id of the user message is used again.
BotMessageIdOfUser(messages) == Len(messages) + 1

\* id: messages.length + 2, with the messages of the render whose
\* handleSendMessage was called.
BotMessageId(messages) == Len(messages) + 2

\* handleSendMessage, called by the send button or the Enter key.
HandleSendMessage ==
    /\ PanelRendered
    /\ sendCalls' = ~sendCalls
    /\ IF SendRejected(eng)
       THEN UNCHANGED <<eng, vTimers, vSink>>
       ELSE /\ Len(eng.messages) < 1 + 2 * MaxSends
            /\ Len(vTimers) < MaxReplyTimers
            /\ LET text == Trim(eng.inputValue)
                   userMessage == [id |-> Len(eng.messages) + 1, text |-> text,
                                   sender |-> "user"]
               IN  /\ eng' = Sent(eng, userMessage)
                   /\ vSink' = IF eng.onMessage THEN Append(vSink, text) ELSE vSink
                   /\ vTimers' = Append(vTimers,
                                    [live |-> TRUE, delay |-> ReplyDelay,
                                     id |-> BotMessageId(eng.messages)])
    /\ UNCHANGED <<vPath, polVars, tawkVars, errVars>>

\* Mutation of Replied: setIsTyping(false) is missing.
RepliedStillTyping(e, botMessage) ==
    [e EXCEPT !.messages = Append(@, botMessage)]

\* The component state after setMessages(prev => [...prev, botMessage]) and
\* setIsTyping(false).
Replied(e, botMessage) ==
    [e EXCEPT !.messages = Append(@, botMessage),
              !.isTyping = FALSE]

\* The oldest reply timer fires (all have the same delay).
ReplyTimerFires ==
    /\ vTimers # << >>
    /\ LET t == Head(vTimers)
           botMessage == [id |-> t.id, text |-> <<ReplyText>>, sender |-> "bot"]
       IN  eng' = IF t.live THEN Replied(eng, botMessage) ELSE eng
    /\ vTimers' = Tail(vTimers)
    /\ UNCHANGED <<vPath, vSink, sendCalls, polVars, tawkVars, errVars>>

EngineInit ==
    /\ TawkIdle /\ ErrIdle /\ PolIdle
    /\ vPath \in TawkPaths
    /\ eng = NoEngine
    /\ vTimers = << >>
    /\ vSink = << >>
    /\ sendCalls = FALSE

EngineNext ==
    \/ \E onMessage \in BOOLEAN : VMount(onMessage)
    \/ VUnmount
    \/ VRerender
    \/ \E p \in TawkPaths : VRouteChange(p)
    \/ ToggleChat
    \/ \E d \in Drafts : SetInputValue(d)
    \/ HandleSendMessage
    \/ ReplyTimerFires

SpecEngine == EngineInit /\ [][EngineNext]_vars

\* A handleSendMessage call of the mounted component: the step flips the
\* call mark and is neither the mount nor the unmount, which reset it.
SendStep == eng.mounted /\ eng'.mounted /\ sendCalls' # sendCalls

\* The draft is empty or holds white space only.
Blank(draft) == \A k \in 1..Len(draft) : draft[k] = " "

\* text is draft without the white space at its two ends.
IsTrimOf(text, draft) ==
    /\ text # << >> => text[1] # " " /\ text[Len(text)] # " "
    /\ \E i \in 0..Len(draft) : \E j \in i..Len(draft) :
          /\ text = SubSeq(draft, i + 1, j)
          /\ Blank(SubSeq(draft, 1, i))
          /\ Blank(SubSeq(draft, j + 1, Len(draft)))

\* C5: a send attempted while the trimmed draft is empty or while isTyping
\* is true changes neither the messages, nor the draft, nor isTyping,
\* schedules no reply timer and does not call onMessage.
C5_RejectedSendChangesNothing ==
    [][(SendStep /\ (Blank(eng.inputValue) \/ eng.isTyping)) =>
          /\ eng'.messages = eng.messages
          /\ eng'.inputValue = eng.inputValue
          /\ eng'.isTyping = eng.isTyping
          /\ vTimers' = vTimers
          /\ vSink' = vSink]_vars

\* A send was attempted on a draft of white space, and nothing was sent in
\* this mount: the calls since the mount are odd in number and the messages
\* are the welcome message alone.
C5_Witness ==
    /\ eng.mounted
    /\ sendCalls
    /\ eng.inputValue = <<" ", " ">>
    /\ ~eng.isTyping
    /\ Len(eng.messages) = 1
    /\ vTimers = << >>
    /\ vSink = << >>

\* C9: a successful send appends a user message with the trimmed text,
\* clears the draft, sets isTyping and calls a supplied onMessage with the
\* trimmed text, in the step that schedules the 1000 ms reply timer; when
\* the timer fires, one bot message with the reply text is appended and
\* isTyping becomes false.
C9_SendThenReply ==
    [][/\ (SendStep /\ ~Blank(eng.inputValue) /\ ~eng.isTyping) =>
             /\ Len(eng'.messages) = Len(eng.messages) + 1
             /\ SubSeq(eng'.messages, 1, Len(eng.messages)) = eng.messages
             /\ LET m == eng'.messages[Len(eng'.messages)]
                IN  /\ m.sender = "user"
                    /\ IsTrimOf(m.text, eng.inputValue)
                    /\ IF eng.onMessage
                       THEN vSink' = Append(vSink, m.text)
                       ELSE vSink' = vSink
             /\ eng'.inputValue = << >>
             /\ eng'.isTyping
             /\ Len(vTimers') = Len(vTimers) + 1
             /\ vTimers'[Len(vTimers')].live
             /\ vTimers'[Len(vTimers')].delay = 1000
       /\ (Len(vTimers') < Len(vTimers) /\ Head(vTimers).live) =>
             /\ Len(eng'.messages) = Len(eng.messages) + 1
             /\ SubSeq(eng'.messages, 1, Len(eng.messages)) = eng.messages
             /\ eng'.messages[Len(eng'.messages)].sender = "bot"
             /\ eng'.messages[Len(eng'.messages)].text = <<ReplyText>>
             /\ ~eng'.isTyping]_vars

\* The draft ' a' was sent with onMessage supplied and the reply has come.
C9_Witness ==
    /\ eng.mounted
    /\ eng.onMessage
    /\ Len(eng.messages) = 3
    /\ eng.messages[2].sender = "user"
    /\ eng.messages[2].text = <<"a">>
    /\ eng.messages[3].sender = "bot"
    /\ eng.messages[3].text = <<ReplyText>>
    /\ vSink = << <<"a">> >>
    /\ ~eng.isTyping
    /\ vTimers = << >>

\* The messages that carry the welcome text.
WithWelcomeText(messages) ==
    {k \in 1..Len(messages) : messages[k].text = <<WelcomeText>>}

\* C10, as claimed: in every state of a mount exactly one message carries
\* the welcome text, the first.
C10_OneMessageWithSeedText ==
    eng.mounted => WithWelcomeText(eng.messages) = {1}

\* C10, amended: in every state of a mount exactly one bot message carries
\* the welcome text, the first message.
C10_OneSeededBotMessage ==
    eng.mounted =>
        /\ {k \in WithWelcomeText(eng.messages) : eng.messages[k].sender = "bot"} = {1}
        /\ eng.messages[1].id = 1

\* The user has sent the welcome text: two messages carry it, one of the bot.
C10_Witness ==
    /\ eng.mounted
    /\ Len(eng.messages) >= 2
    /\ eng.messages[2].sender = "user"
    /\ eng.messages[2].text = <<WelcomeText>>
    /\ eng.messages[1].sender = "bot"
    /\ eng.messages[1].text = <<WelcomeText>>

\* C13: the panel is never left open on a hidden route: in every state of a
\* mounted engine whose route is hidden, isOpen is false, whatever the user
\* did before the route became hidden and whatever is done while it stays so.
C13_ClosedWhenHidden ==
    (eng.mounted /\ VeeyaaShouldHide(vPath, DefaultHideOnRoutes)) => ~eng.isOpen

\* The route is hidden and the panel is closed, and a draft is left from the
\* time the panel was open in this mount.
C13_Witness ==
    /\ eng.mounted
    /\ vPath = CustomerPath
    /\ ~eng.isOpen
    /\ eng.inputValue = <<"a">>

\* The pending reply timers of the mounted component.
OwnReplyTimers == {k \in DOMAIN vTimers : vTimers[k].live}

\* C19: in every state of a mounted engine at most one of its reply timers
\* is pending, and one is pending exactly when isTyping is true.
C19_OneReplyPending ==
    eng.mounted =>
        /\ Cardinality(OwnReplyTimers) <= 1
        /\ OwnReplyTimers # {} <=> eng.isTyping

\* A reply is pending and a second send was attempted meanwhile (two calls
\* of handleSendMessage since the mount, one user message): there is still
\* one timer.
C19_Witness ==
    /\ eng.mounted
    /\ eng.isTyping
    /\ Len(eng.messages) = 2
    /\ ~sendCalls
    /\ Cardinality(OwnReplyTimers) = 1

\* C20: within one mount the messages are append-only and their ids are
\* strictly increasing: a step of a mounted engine leaves every message at
\* its position, and every message has an id greater than the ids before it.
C20_AppendOnlyIncreasingIds ==
    [][ /\ (eng.mounted /\ eng'.mounted) =>
              /\ Len(eng'.messages) >= Len(eng.messages)
              /\ SubSeq(eng'.messages, 1, Len(eng.messages)) = eng.messages
        /\ \A j \in DOMAIN eng'.messages : \A k \in DOMAIN eng'.messages :
              j < k => eng'.messages[j].id < eng'.messages[k].id
      ]_vars

\* Two messages were sent and answered in one mount.
C20_Witness ==
    /\ eng.mounted
    /\ Len(eng.messages) = 5
    /\ eng.messages[4].sender = "user"
    /\ eng.messages[5].sender = "bot"
    /\ eng.messages[5].id = 5
    /\ ~eng.isTyping

\* C21: the transcript of a mounted engine alternates senders, starting with
\* the bot: two consecutive messages never have the same sender, and the
\* last message is from the user exactly when isTyping is true.
C21_SendersAlternate ==
    eng.mounted =>
        /\ Len(eng.messages) >= 1
        /\ eng.messages[1].sender = "bot"
        /\ \A k \in 1..(Len(eng.messages) - 1) :
              eng.messages[k].sender # eng.messages[k + 1].sender
        /\ eng.messages[Len(eng.messages)].sender = "user" <=> eng.isTyping

\* The second message of a mount was sent and its reply is pending: bot,
\* user, bot, user.
C21_Witness ==
    /\ eng.mounted
    /\ Len(eng.messages) = 4
    /\ eng.messages[3].sender = "bot"
    /\ eng.messages[4].sender = "user"
    /\ eng.isTyping

---------------------------------------------------------------------------
(* Specification of the visibility predicate: the inputs are drawn from    *)
(* bounded sets, every navigation re-evaluates both components.            *)

PathChars == {"/", "c", "C"}
PolPaths == SeqsUpTo(PathChars, MaxPathLen)
PolPrefixes == SeqsUpTo(PathChars, MaxPrefixLen)
PolRouteSets == SeqsUpTo(PolPrefixes, MaxRoutes)

PolInit ==
    /\ TawkIdle /\ ErrIdle /\ EngIdle
    /\ polPath \in PolPaths
    /\ polRoutes \in PolRouteSets
    /\ polTawk = TawkShouldHide(polPath, polRoutes)
    /\ polVeeyaa = VeeyaaShouldHide(polPath, polRoutes)

\* A navigation: location.pathname changes, the effect re-runs (pathname is
\* a dependency) and the engine re-renders.
PolNavigate(p) ==
    /\ p # polPath
    /\ polPath' = p
    /\ polTawk' = TawkShouldHide(p, polRoutes)
    /\ polVeeyaa' = VeeyaaShouldHide(p, polRoutes)
    /\ UNCHANGED <<polRoutes, tawkVars, errVars, engVars>>

PolNext == \E p \in PolPaths : PolNavigate(p)

SpecPolicy == PolInit /\ [][PolNext]_vars

\* r is a literal prefix of s: s is r followed by some remainder.
IsLiteralPrefix(r, s) ==
    \E rest \in SeqsUpTo(PathChars, MaxPathLen) : s = r \o rest

\* C1: for every path and every route set, both components compute
\* hidden = TRUE exactly when some element of the route set is a literal,
\* case-sensitive prefix of the path; an empty route set is never hidden.
C1_HiddenIffSomePrefix ==
    LET expected == \E n \in DOMAIN polRoutes : IsLiteralPrefix(polRoutes[n], polPath)
    IN  /\ polTawk = expected
        /\ polVeeyaa = expected
        /\ (polRoutes = << >> => ~polTawk /\ ~polVeeyaa)

\* Both components report hidden for a path that properly extends the
\* configured route.
C1_Witness ==
    /\ Len(polRoutes) = 1
    /\ polRoutes[1] = <<"c">>
    /\ polPath = <<"c", "C">>
    /\ polTawk /\ polVeeyaa

=============================================================================
